---- MODULE Spec2Model ----
(***************************************************************************)
(* Transmission-line simulation of src/M2_task/m2_2_0.py: the parameter    *)
(* resolution at module level, the stepper inside animate(frame) and the   *)
(* FuncAnimation driver that delivers the frames.                          *)
(*                                                                         *)
(* Numbers.  The configuration quantities (L0, C0, w, alpha, r, R_end,     *)
(* dt, the drive's time argument) are exact rationals [n, d].  The line    *)
(* state V, I and the drive value are float64 in the program; here they    *)
(* are fixed-point numbers, integers counting 1/Quantum, and every product *)
(* with a coefficient is rounded to the nearest such number, as a float    *)
(* product is rounded to the nearest float.                                *)
(***************************************************************************)
EXTENDS Integers, Sequences, FiniteSets, TLC

VARIABLES cfg, par, pc, V, I, ydata, drv, nextf, frame, sub, steps, targs,
          tNow, lastDrive

vars == <<cfg, par, pc, V, I, ydata, drv, nextf, frame, sub, steps, targs,
          tNow, lastDrive>>

\* ------------------------------------------------------------------ bounds
\* Largest number of spatial segments explored (the program sets N = 200).
MaxN == 13
\* Frames per pass of the animation in the small runs (the program: 2000).
SmallFrames == 3
\* Total stepper invocations allowed in a small run.
MaxSteps == 30
\* Stepper invocations of a stability run.
StabSteps == 5000
\* Resolution of the fixed-point line state: values count 1/Quantum.
Quantum == 10000

\* ------------------------------------------------------- program constants
N == 200
frames == 2000
sub_steps == 5

\* --------------------------------------------------------------- rationals
Abs(x) == IF x < 0 THEN -x ELSE x

RECURSIVE GCD(_, _)
GCD(a, b) == IF b = 0 THEN a ELSE GCD(b, a % b)

Rat(n, d) ==
    LET g == GCD(Abs(n), Abs(d))
        s == IF d < 0 THEN -1 ELSE 1
    IN  [n |-> (s * n) \div g, d |-> (s * d) \div g]

RInt(k) == [n |-> k, d |-> 1]
RAdd(a, b) == Rat(a.n * b.d + b.n * a.d, a.d * b.d)
RMul(a, b) == Rat(a.n * b.n, a.d * b.d)
RDiv(a, b) == Rat(a.n * b.d, a.d * b.n)
RLeq(a, b) == a.n * b.d <= b.n * a.d

\* Largest s with s*s <= x.
ISqrt(x) == CHOOSE s \in 0..x : s * s <= x /\ (s + 1) * (s + 1) > x

\* np.sqrt of a non-negative rational: exact when numerator and denominator
\* are perfect squares, which they are for every configuration explored.
RSqrt(q) == Rat(ISqrt(q.n), ISqrt(q.d))

\* -------------------------------------------------------------- fixed point
\* a/d rounded to the nearest integer (d > 0).
RoundDiv(a, d) == (a \div d) + (IF 2 * (a % d) >= d THEN 1 ELSE 0)

\* The fixed-point product x * q.
MulQ(x, q) == RoundDiv(x * q.n, q.d)

\* sin of the fixed-point angle y, |y| <= pi/2, by its Taylor polynomial of
\* degree 9 in Horner form:
\*   y * (1 - y^2/6 * (1 - y^2/20 * (1 - y^2/42 * (1 - y^2/72)))).
SinPoly(y) ==
    LET p2 == RoundDiv(y * y, Quantum)
        t4 == Quantum - RoundDiv(p2, 72)
        t3 == Quantum - RoundDiv(RoundDiv(p2 * t4, Quantum), 42)
        t2 == Quantum - RoundDiv(RoundDiv(p2 * t3, Quantum), 20)
        t1 == Quantum - RoundDiv(RoundDiv(p2 * t2, Quantum), 6)
    IN  RoundDiv(y * t1, Quantum)

\* np.sin of the rational angle x, as a fixed-point number: the angle is
\* reduced to (-pi, pi], folded into [-pi/2, pi/2] and handed to SinPoly.
SinFix(x) ==
    LET pi  == RoundDiv(Quantum * 355, 113)
        xf  == RoundDiv(x.n * Quantum, x.d)
        m   == xf % (2 * pi)
        y   == IF m > pi THEN m - 2 * pi ELSE m
        z   == IF 2 * y > pi THEN pi - y
               ELSE IF 2 * y < -pi THEN -pi - y ELSE y
    IN  SinPoly(z)

\* ---------------------------------------------------- parameter resolution
L0 == RInt(1)
w0 == Rat(1, 5)

\* The scenario branches: the values of R_end, r and alpha each one sets.
\* Scenario 2 sets R_end = sqrt(L0 / C0) here, from the base values.
ScenarioOverrides(c) ==
    CASE c.scenario = 1 -> [R_end |-> RInt(0), r |-> RInt(0), alpha |-> RInt(0)]
      [] c.scenario = 2 -> [R_end |-> RSqrt(RDiv(L0, c.C0)), r |-> RInt(0),
                            alpha |-> RInt(0)]
      [] c.scenario = 3 -> [R_end |-> RInt(0), r |-> Rat(5, 100),
                            alpha |-> RInt(0)]
      [] c.scenario = 4 -> [R_end |-> RInt(0), r |-> RInt(0),
                            alpha |-> Rat(1, 2)]

\* 1 + alpha * w^2
Dispersion(c, alpha) == RAdd(RInt(1), RMul(alpha, RMul(c.w, c.w)))

EffL(c, alpha) == RMul(L0, Dispersion(c, alpha))
EffC(c, alpha) == RMul(c.C0, Dispersion(c, alpha))

\* ZEff with the product under the root, as in the formula for dt.
ZEffProduct(Le, Ce) == RSqrt(RMul(Le, Ce))

ZEff(Le, Ce) == RSqrt(RDiv(Le, Ce))

\* R_end after the second scenario test: Z_eff for the matched load.
ResolveREnd(c, o, Z) == IF c.scenario = 2 THEN Z ELSE o.R_end

\* TimeStep with the quotient under the root, as in the formula for Z_eff.
TimeStepRatio(c, Le, Ce) == RMul(c.k, RSqrt(RDiv(Le, Ce)))

TimeStep(c, Le, Ce) == RMul(c.k, RSqrt(RMul(Le, Ce)))

\* The division L_eff / C_eff of two Python floats raises ZeroDivisionError
\* when C_eff is 0 (scenario 2 already divides L0 by C0).
RaisesZeroDivision(c) == c.C0.n = 0

Resolved(c) ==
    LET o  == ScenarioOverrides(c)
        Le == EffL(c, o.alpha)
        Ce == EffC(c, o.alpha)
        Z  == ZEff(Le, Ce)
    IN  [L_eff |-> Le, C_eff |-> Ce, Z_eff |-> Z, r |-> o.r, alpha |-> o.alpha,
         R_end |-> ResolveREnd(c, o, Z), dt |-> TimeStep(c, Le, Ce)]

Unresolved == [L_eff |-> RInt(0), C_eff |-> RInt(0), Z_eff |-> RInt(0),
               r |-> RInt(0), alpha |-> RInt(0), R_end |-> RInt(0),
               dt |-> RInt(0)]

Zeros(lo, hi) == [n \in lo..hi |-> 0]

\* ------------------------------------------------------------------ stepper
\* TimeArg advanced by dt in every sub-step.
TimeArgPerSubStep(p, fr, s) == RMul(RInt(fr * sub_steps + s), p.dt)

\* The argument of the sine without the factor w: frame * dt * sub_steps.
\* The sub-step index s is at hand in the loop and is not used.
TimeArg(p, fr, s) == RMul(RMul(RInt(fr), p.dt), RInt(sub_steps))

\* The argument of the sine: w * frame * dt * sub_steps.
Phase(c, p, fr, s) == RMul(c.w, TimeArg(p, fr, s))

\* Drive with the cosine: the sine of the phase advanced by pi/2.
DriveCos(c, p, fr, s) ==
    RoundDiv(SinFix(RAdd(Phase(c, p, fr, s), Rat(355, 226))), 2)

\* 0.5 * np.sin(w * frame * dt * sub_steps), fixed-point.
Drive(c, p, fr, s) == RoundDiv(SinFix(Phase(c, p, fr, s)), 2)

\* V[0] = drive
SetSource(Vc, d) == [Vc EXCEPT ![0] = d]

\* InteriorUpdate with the loop over range(0, N): at n = 0 the index n - 1
\* is -1, Python's last element I[N - 1].
InteriorUpdateFromZero(c, p, Vc, Ic) ==
    LET cv == RDiv(p.dt, p.C_eff)
    IN  [n \in 0..c.N |->
            IF n < c.N
            THEN Vc[n] + MulQ(Ic[(n - 1) % c.N] - Ic[n], cv)
            ELSE Vc[n]]

\* V_new = V.copy(); for n in range(1, N): V_new[n] = V[n] + dt/C_eff*(I[n-1]-I[n])
\* Every iteration writes its own element and reads V and I, which the loop
\* leaves alone, so the loop is the pointwise definition.
InteriorUpdate(c, p, Vc, Ic) ==
    LET cv == RDiv(p.dt, p.C_eff)
    IN  [n \in 0..c.N |->
            IF n >= 1 /\ n < c.N
            THEN Vc[n] + MulQ(Ic[n - 1] - Ic[n], cv)
            ELSE Vc[n]]

\* Terminate with the characteristic impedance in place of R_end.
TerminateMatched(c, p, Vn, Ic) ==
    [Vn EXCEPT ![c.N] = MulQ(Ic[c.N - 1], p.Z_eff)]

\* V_new[N] = R_end * I[N - 1]
Terminate(c, p, Vn, Ic) == [Vn EXCEPT ![c.N] = MulQ(Ic[c.N - 1], p.R_end)]

\* CurrentUpdate with the voltage difference taken one node to the left:
\* V_new[n - 1] - V_new[n], the index -1 being node N.
CurrentUpdateShifted(c, p, Vn, Ic) ==
    LET ci == RDiv(p.dt, p.L_eff)
    IN  [n \in 0..(c.N - 1) |->
            Ic[n] + MulQ((Vn[(n - 1) % (c.N + 1)] - Vn[n]) - MulQ(Ic[n], p.r), ci)]

\* for n in range(N): I[n] += dt/L_eff*((V_new[n] - V_new[n+1]) - r*I[n])
\* Iteration n reads and writes I[n] only, and V_new is complete.
CurrentUpdate(c, p, Vn, Ic) ==
    LET ci == RDiv(p.dt, p.L_eff)
    IN  [n \in 0..(c.N - 1) |->
            Ic[n] + MulQ((Vn[n] - Vn[n + 1]) - MulQ(Ic[n], p.r), ci)]

\* Stepper with one fused loop that updates V[n] and then I[n] in place, so
\* that each node reads the current its left neighbour has just written.
RECURSIVE FusedSweep(_, _, _, _, _)
FusedSweep(c, p, Vc, Ic, n) ==
    IF n >= c.N THEN [V |-> Vc, I |-> Ic]
    ELSE LET cv == RDiv(p.dt, p.C_eff)
             ci == RDiv(p.dt, p.L_eff)
             Vn == IF n >= 1
                   THEN [Vc EXCEPT ![n] = Vc[n] + MulQ(Ic[n - 1] - Ic[n], cv)]
                   ELSE Vc
             In == [Ic EXCEPT ![n] = Ic[n] + MulQ((Vn[n] - Vn[n + 1])
                                                   - MulQ(Ic[n], p.r), ci)]
         IN  FusedSweep(c, p, Vn, In, n + 1)

StepperFused(c, p, Vc, Ic, d) ==
    FusedSweep(c, p, Terminate(c, p, SetSource(Vc, d), Ic), Ic, 0)

\* One sub-step from (V, I) with the drive value d: the new voltages from
\* the old currents, then the new currents from the new voltages, then the
\* commit V = V_new.
Stepper(c, p, Vc, Ic, d) ==
    LET Vn == Terminate(c, p, InteriorUpdate(c, p, SetSource(Vc, d), Ic), Ic)
    IN  [V |-> Vn, I |-> CurrentUpdate(c, p, Vn, Ic)]

\* Ten times the drive amplitude, fixed-point.
Bound == 10 * RoundDiv(Quantum, 2)

\* Some node's voltage is beyond the bound: the run has diverged, and the
\* model follows it no further.
Diverged(Vc) == \E n \in DOMAIN Vc : Abs(Vc[n]) > Bound

\* ------------------------------------------------------------------- states
Configs ==
    [N : 0..MaxN, scenario : 1..4, w : {RInt(0), w0},
     C0 : {RInt(0), Rat(1, 100)}, k : {Rat(9, 10)}, frames : {SmallFrames},
     cap : {MaxSteps}]

StabConfigs ==
    [N : {N}, scenario : {1}, w : {w0}, C0 : {Rat(1, 100)},
     k : {Rat(9, 10), Rat(11, 10)}, frames : {frames}, cap : {StabSteps}]

InitWith(C) ==
    /\ cfg \in C
    /\ par = Unresolved
    /\ pc = "start"
    /\ V = <<>>
    /\ I = <<>>
    /\ ydata = <<>>
    /\ drv = "init"
    /\ nextf = 0
    /\ frame = 0
    /\ sub = 0
    /\ steps = 0
    /\ targs = <<>>
    /\ tNow = RInt(0)
    /\ lastDrive = 0

Init == InitWith(Configs)

InitStab == InitWith(StabConfigs)

\* ------------------------------------------------------------------ actions
\* The module-level script up to the construction of the animation:
\* the scenario branches, the effective parameters, dt, the zero arrays and
\* the first plot of V.
Resolve ==
    /\ pc = "start"
    /\ IF RaisesZeroDivision(cfg)
       THEN /\ pc' = "raised"
            /\ UNCHANGED <<par, V, I, ydata>>
       ELSE /\ pc' = "idle"
            /\ par' = Resolved(cfg)
            /\ V' = Zeros(0, cfg.N)
            /\ I' = Zeros(0, cfg.N - 1)
            /\ ydata' = Zeros(0, cfg.N)
    /\ UNCHANGED <<cfg, drv, nextf, frame, sub, steps, targs, tNow,
                   lastDrive>>

\* animate(fr) is entered.
Call(fr) ==
    /\ steps + sub_steps <= cfg.cap
    /\ ~Diverged(V)
    /\ pc' = "animate"
    /\ frame' = fr
    /\ sub' = 0
    /\ targs' = <<>>

\* FuncAnimation draws the first frame of the sequence when it starts, and
\* again each time the sequence restarts: no init_func is given.
InitDraw ==
    /\ pc = "idle"
    /\ drv = "init"
    /\ Call(0)
    /\ drv' = "seq"
    /\ nextf' = 0
    /\ UNCHANGED <<cfg, par, V, I, ydata, steps, tNow, lastDrive>>

\* The timer delivers the next frame of range(frames).
StepFrame ==
    /\ pc = "idle"
    /\ drv = "seq"
    /\ nextf < cfg.frames
    /\ Call(nextf)
    /\ nextf' = nextf + 1
    /\ UNCHANGED <<cfg, par, V, I, ydata, drv, steps, tNow, lastDrive>>

\* The sequence is exhausted and the animation repeats (repeat is left at
\* its default, True): the sequence is started again; V and I are kept.
Repeat ==
    /\ pc = "idle"
    /\ drv = "seq"
    /\ nextf = cfg.frames
    /\ drv' = "init"
    /\ UNCHANGED <<cfg, par, pc, V, I, ydata, nextf, frame, sub, steps, targs,
                   tNow, lastDrive>>

\* One iteration of the loop over range(sub_steps).
SubStep ==
    /\ pc = "animate"
    /\ sub < sub_steps
    /\ cfg.N >= 1
    /\ ~Diverged(V)
    /\ LET d  == Drive(cfg, par, frame, sub)
           st == Stepper(cfg, par, V, I, d)
       IN  /\ V' = st.V
           /\ I' = st.I
           /\ lastDrive' = d
    /\ targs' = Append(targs, Phase(cfg, par, frame, sub))
    /\ tNow' = TimeArg(par, frame, sub)
    /\ sub' = sub + 1
    /\ steps' = steps + 1
    /\ UNCHANGED <<cfg, par, pc, ydata, drv, nextf, frame>>

\* With N = 0 the array I is empty: V[0] is set and I[N - 1] raises
\* IndexError inside the first sub-step.
SubStepIndexError ==
    /\ pc = "animate"
    /\ sub < sub_steps
    /\ cfg.N = 0
    /\ V' = SetSource(V, Drive(cfg, par, frame, sub))
    /\ lastDrive' = Drive(cfg, par, frame, sub)
    /\ pc' = "raised"
    /\ UNCHANGED <<cfg, par, I, ydata, drv, nextf, frame, sub, steps, targs,
                   tNow>>

\* line.set_ydata(V); return line,
AnimateReturn ==
    /\ pc = "animate"
    /\ sub = sub_steps
    /\ ydata' = V
    /\ pc' = "idle"
    /\ UNCHANGED <<cfg, par, V, I, drv, nextf, frame, sub, steps, targs,
                   tNow, lastDrive>>

Next ==
    \/ Resolve
    \/ InitDraw
    \/ StepFrame
    \/ Repeat
    \/ SubStep
    \/ SubStepIndexError
    \/ AnimateReturn

Spec == Init /\ [][Next]_vars

\* A stability run: the program's N and frames, 5000 stepper invocations,
\* the stability margin 0.9 of the program and the margin 1.1.
NextStab ==
    \/ Resolve
    \/ InitDraw
    \/ StepFrame
    \/ SubStep
    \/ AnimateReturn

SpecStab == InitStab /\ [][NextStab]_vars

\* ------------------------------------------------------------------ claims
\* The arrays exist: the script has run through the construction.
Built == pc \in {"idle", "animate"}

AllZero(f) == \A n \in DOMAIN f : f[n] = 0

\* C1 - Boundary enforcement: after every sub-step V[0] is exactly the drive
\* value computed in that sub-step; the interior update, the termination and
\* the commit V = V_new leave node 0 alone.
C1_BoundaryEnforced == (Built /\ steps > 0) => V[0] = lastDrive

C1_Witness ==
    /\ Built /\ cfg.N >= 2 /\ steps > 0
    /\ V[0] # 0 /\ V[0] = lastDrive
    /\ I[0] # 0 /\ I[cfg.N - 1] # I[0]

\* C2 - One sub-step is the transition of the specified order: V'[0] is the
\* drive, every interior V'[n] is V[n] + (dt/C_eff)(I[n-1] - I[n]) from the
\* old currents, V'[N] = R_end * I[N-1] from the old current, and every
\* I'[n] is I[n] + (dt/L_eff)((V'[n] - V'[n+1]) - r I[n]) from the new
\* voltages and the old I[n].
C2_SubStepTransition ==
    [][steps' = steps + 1 =>
         /\ V'[0] = Drive(cfg, par, frame, sub)
         /\ \A n \in 1..(cfg.N - 1) :
                V'[n] = V[n] + MulQ(I[n - 1] - I[n], RDiv(par.dt, par.C_eff))
         /\ V'[cfg.N] = MulQ(I[cfg.N - 1], par.R_end)
         /\ \A n \in 0..(cfg.N - 1) :
                I'[n] = I[n] + MulQ((V'[n] - V'[n + 1]) - MulQ(I[n], par.r),
                                    RDiv(par.dt, par.L_eff))
         /\ DOMAIN V' = 0..cfg.N
         /\ DOMAIN I' = 0..(cfg.N - 1)]_vars

C2_Witness ==
    /\ Built /\ cfg.N >= 3 /\ cfg.scenario = 3 /\ sub >= 2
    /\ \A n \in 0..(cfg.N - 1) : I[n] # 0 /\ V[n] # 0

\* C3 - Frame-phase quirk: a call of animate makes exactly sub_steps stepper
\* invocations, and the argument of the drive is the same in every one of
\* them: it is a function of the frame, not of the sub-step index.
C3_SamePhasePerFrame ==
    /\ Built => Len(targs) = sub
    /\ (pc = "idle" /\ steps > 0) => Len(targs) = sub_steps
    /\ \A i \in DOMAIN targs :
          /\ targs[i] = targs[1]
          /\ targs[i] = RMul(RMul(RMul(cfg.w, RInt(frame)), par.dt),
                             RInt(sub_steps))

C3_Witness ==
    /\ pc = "idle" /\ Len(targs) = sub_steps /\ frame >= 1
    /\ targs[1].n # 0 /\ targs[sub_steps] = targs[1]

\* C4 - Matched load: in scenario 2 the resolved R_end is sqrt(L_eff/C_eff),
\* that is R_end >= 0 and R_end^2 * C_eff = L_eff for the effective values
\* L0 (1 + alpha w^2), C0 (1 + alpha w^2); in scenarios 1, 3, 4 it is 0.
C4_MatchedLoad ==
    Built =>
      /\ par.L_eff = RMul(L0, RAdd(RInt(1), RMul(par.alpha, RMul(cfg.w, cfg.w))))
      /\ par.C_eff = RMul(cfg.C0, RAdd(RInt(1), RMul(par.alpha, RMul(cfg.w, cfg.w))))
      /\ IF cfg.scenario = 2
         THEN /\ par.R_end.n >= 0
              /\ RMul(RMul(par.R_end, par.R_end), par.C_eff) = par.L_eff
         ELSE par.R_end = RInt(0)

C4_Witness ==
    Built /\ cfg.scenario = 2 /\ cfg.w = w0 /\ par.R_end = RInt(10)

\* C5 - Short-circuit reflection: with R_end = 0 the terminated node V[N] is
\* exactly 0 in the initial state and after every sub-step, whatever I is.
C5_ShortCircuitEnd ==
    (Built /\ cfg.N >= 1 /\ par.R_end = RInt(0)) => V[cfg.N] = 0

C5_Witness ==
    /\ Built /\ cfg.N >= 2 /\ par.R_end = RInt(0) /\ steps > 0
    /\ I[cfg.N - 1] # 0 /\ V[cfg.N - 1] # 0 /\ V[cfg.N] = 0

\* C6 - Zero-input baseline: with w = 0 and the short circuit, V and I stay
\* all-zero through any number of sub-steps and frames.
C6_ZeroBaseline ==
    (Built /\ cfg.w = RInt(0) /\ cfg.scenario = 1) =>
        AllZero(V) /\ AllZero(I) /\ AllZero(ydata)

C6_Witness ==
    /\ Built /\ cfg.w = RInt(0) /\ cfg.scenario = 1 /\ cfg.N >= 4
    /\ steps >= 4 * sub_steps /\ frame >= 1 /\ AllZero(V) /\ AllZero(I)

\* C7 - Stability boundary, short circuit, r = 0: with dt = 0.9 sqrt(L C)
\* every |V[n]| stays below ten times the drive amplitude throughout the
\* 5000 steps; with dt = 1.1 sqrt(L C) the run cannot use up its 5000 steps
\* without some |V[n]| exceeding that bound: while no node has exceeded it,
\* fewer than 5000 steps are done and a further step is possible.
C7_StabilityBoundary ==
    /\ (Built /\ cfg.k = Rat(9, 10)) => \A n \in DOMAIN V : Abs(V[n]) < Bound
    /\ (Built /\ cfg.k = Rat(11, 10) /\ ~Diverged(V)) =>
           steps + sub_steps <= StabSteps \/ pc = "animate"

C7_Witness ==
    /\ Built /\ cfg.k = Rat(9, 10) /\ cfg.N = N /\ steps = 5000
    /\ \E n \in DOMAIN V : Abs(V[n]) > RoundDiv(Quantum, 2)

\* C8 - Invalid configuration fails fast: with N < 2 or C0 <= 0 the
\* construction is rejected, so the arrays are never built and the stepper
\* is never entered.
C8_RejectsInvalid ==
    (cfg.N < 2 \/ cfg.C0.n <= 0) => ~Built

\* C9 - Monotone drive schedule: the time argument frame * dt * sub_steps of
\* a stepper invocation is never smaller than that of the one before.
C9_MonotoneSchedule == [][RLeq(tNow, tNow')]_vars

\* C10 - Finite propagation speed: after k sub-steps from the all-zero
\* state, V[n] = 0 for every n >= max(k, 1) and I[n] = 0 for every n >= k.
C10_FinitePropagation ==
    Built =>
      /\ \A n \in DOMAIN V : (n >= steps /\ n >= 1) => V[n] = 0
      /\ \A n \in DOMAIN I : n >= steps => I[n] = 0

C10_Witness ==
    /\ Built /\ cfg.N = 13 /\ steps = 12
    /\ V[0] # 0 /\ V[1] # 0 /\ I[1] # 0
    /\ V[12] = 0 /\ V[13] = 0 /\ I[12] = 0

====
